---- MODULE Spec2Model ----
(***************************************************************************)
(* A model of the speecha proxy endpoint, POST /api/webhook                *)
(* (src/app/api/webhook/route.ts): request validation, the single outbound *)
(* call to the text-to-speech webhook, and the normalization of the        *)
(* webhook's response into the {success, file, text, voiceId} body.        *)
(*                                                                         *)
(* JavaScript values are records tagged with t, the value of each type     *)
(* held in a field of its own (num, str, bool, props, items);              *)
(* strings are TLA+ strings, byte buffers are sequences of 0..255.         *)
(***************************************************************************)
EXTENDS Integers, Sequences, FiniteSets, TLC

\* one invocation of POST /api/webhook
VARIABLES pc, request, calls, webhookResponse, response, returned

\* the Dashboard component: which of the two source variants it is, its React
\* state, the timers and object URLs of its window, the generation request in
\* flight, and the history the properties read (counters, cleared, lastStep)
VARIABLES variant, formText, formVoiceId, isGenerating, isSending, audioFile,
          audioUrl, error, success, timers, liveUrls, inflight,
          toasts, urls, generations, cleared, lastStep

postVars == <<pc, request, calls, webhookResponse, response, returned>>

formVars == <<variant, formText, formVoiceId, isGenerating, isSending, audioFile,
              audioUrl, error, success, timers, liveUrls, inflight,
              toasts, urls, generations, cleared, lastStep>>

vars == <<postVars, formVars>>

(***************************************************************************)
(* Bounds of the model.                                                    *)
(***************************************************************************)
\* longest binary body the webhook sends, in bytes
MaxBytes == 3
\* longest array the webhook sends as its JSON value
MaxArray == 2
\* generations the user starts
MaxGenerations == 2
\* showToast calls
MaxToasts == 3

(***************************************************************************)
(* JavaScript values.                                                      *)
(***************************************************************************)
Undefined == [t |-> "undefined"]
Null == [t |-> "null"]
Num(n) == [t |-> "number", num |-> n]
Str(s) == [t |-> "string", str |-> s]
Bool(b) == [t |-> "boolean", bool |-> b]
Obj(f) == [t |-> "object", props |-> f]
Arr(s) == [t |-> "array", items |-> s]

\* typeof x === 'string'
IsString(x) == x.t = "string"

\* Array.isArray(x)
IsArray(x) == x.t = "array"

\* ToBoolean(x): what `!x`, `x || y`, `x && y` and `if (x)` test
Truthy(x) ==
    CASE x.t = "undefined" -> FALSE
      [] x.t = "null" -> FALSE
      [] x.t = "number" -> x.num # 0
      [] x.t = "string" -> x.str # ""
      [] x.t = "boolean" -> x.bool
      [] OTHER -> TRUE

\* a || b
Or(a, b) == IF Truthy(a) THEN a ELSE b

\* x.k throws a TypeError exactly when x is null or undefined
Throws(x) == x.t \in {"null", "undefined"}

\* x.k for an x that is not null or undefined: an own property of an object,
\* undefined on numbers, strings, booleans and arrays (k is never "length")
Get(x, k) == IF x.t = "object" /\ k \in DOMAIN x.props THEN x.props[k] ELSE Undefined

\* { ...(x && { k: x }) }: the property is spread in only when x is truthy
SpreadIf(k, x) == IF Truthy(x) THEN k :> x ELSE <<>>

(***************************************************************************)
(* Strings.                                                                *)
(***************************************************************************)
CharAt(s, i) == SubSeq(s, i, i)

\* s.includes(sub)
Includes(s, sub) ==
    \E i \in 1..(Len(s) - Len(sub) + 1) : SubSeq(s, i, i + Len(sub) - 1) = sub

\* (s.match(/=/g) || []).length: the number of '=' characters anywhere in s
MatchEqCount(s) == Cardinality({i \in 1..Len(s) : CharAt(s, i) = "="})

(***************************************************************************)
(* Base64, as Buffer.from(bytes).toString('base64') produces it.           *)
(***************************************************************************)
Base64Alphabet ==
    "ABCDEFGHIJKLMNOPQRSTUVWXYZabcdefghijklmnopqrstuvwxyz0123456789+/"

Base64Char(n) == CharAt(Base64Alphabet, n + 1)

RECURSIVE Base64Encode(_)
Base64Encode(bytes) ==
    IF Len(bytes) = 0 THEN ""
    ELSE IF Len(bytes) = 1 THEN
        Base64Char(bytes[1] \div 4) \o Base64Char((bytes[1] % 4) * 16) \o "=="
    ELSE IF Len(bytes) = 2 THEN
        Base64Char(bytes[1] \div 4)
            \o Base64Char((bytes[1] % 4) * 16 + bytes[2] \div 16)
            \o Base64Char((bytes[2] % 16) * 4) \o "="
    ELSE
        Base64Char(bytes[1] \div 4)
            \o Base64Char((bytes[1] % 4) * 16 + bytes[2] \div 16)
            \o Base64Char((bytes[2] % 16) * 4 + bytes[3] \div 64)
            \o Base64Char(bytes[3] % 64)
            \o Base64Encode(SubSeq(bytes, 4, Len(bytes)))

(***************************************************************************)
(* Base64 decoding, as atob does it in the browser's base64ToBlob.         *)
(***************************************************************************)
Base64Index(ch) == CHOOSE n \in 0..63 : Base64Char(n) = ch

IsBase64Char(ch) == \E n \in 0..63 : Base64Char(n) = ch

\* groups of four characters, '=' only as the last one or two characters
WellFormedBase64(s) ==
    /\ Len(s) % 4 = 0
    /\ \A i \in 1..Len(s) :
          \/ IsBase64Char(CharAt(s, i))
          \/ CharAt(s, i) = "=" /\ i = Len(s)
          \/ CharAt(s, i) = "=" /\ i = Len(s) - 1 /\ CharAt(s, Len(s)) = "="

RECURSIVE Base64Decode(_)
Base64Decode(s) ==
    IF Len(s) < 4 THEN <<>>
    ELSE LET a == Base64Index(CharAt(s, 1))
             b == Base64Index(CharAt(s, 2))
             byte1 == a * 4 + b \div 16
         IN IF CharAt(s, 3) = "=" THEN <<byte1>>
            ELSE LET c == Base64Index(CharAt(s, 3))
                     byte2 == (b % 16) * 16 + c \div 4
                 IN IF CharAt(s, 4) = "=" THEN <<byte1, byte2>>
                    ELSE <<byte1, byte2, (c % 4) * 64 + Base64Index(CharAt(s, 4))>>
                            \o Base64Decode(SubSeq(s, 5, Len(s)))

(***************************************************************************)
(* NextResponse.json(body, { status }): the handler's answer.              *)
(***************************************************************************)
Json(body, status) == [status |-> status, body |-> body]

NoResponse == [status |-> 0, body |-> Undefined]

\* the catch block answering without { status: 500 }, so with the default 200
InternalServerErrorAs200 == Json(Obj([error |-> Str("Internal server error")]), 200)

\* the catch block of POST
InternalServerError == Json(Obj([error |-> Str("Internal server error")]), 500)

(***************************************************************************)
(* The request: request.json() either throws or yields a value.            *)
(***************************************************************************)
\* const { text, voiceId } = body throws when body is null
DestructureThrows(r) == ~r.parsed \/ Throws(r.body)

text == Get(request.body, "text")

voiceId == Get(request.body, "voiceId")

\* !text || typeof text !== 'string'
InvalidField(x) == ~Truthy(x) \/ ~IsString(x)

TextRequired ==
    Json(Obj([error |-> Str("Text is required and must be a string")]), 400)

VoiceIdRequired ==
    Json(Obj([error |-> Str("Voice ID is required and must be a string")]), 400)

webhookUrl ==
    "https://automation.uconnect.work/webhook/dd2a06d7-396b-465e-98f8-c1fad30162eb"

\* the outbound body of the other revision: { text, voiceId }
FetchCallVoiceId(t, v) ==
    [url |-> webhookUrl, method |-> "POST", body |-> Obj([text |-> t, voiceId |-> v])]

\* the outbound fetch(webhookUrl, { method: 'POST', body: JSON.stringify(..) })
FetchCall(t, v) ==
    [url |-> webhookUrl, method |-> "POST",
     body |-> Obj([text |-> t, voice |-> v, model_id |-> Str("eleven_v3")])]

(***************************************************************************)
(* The webhook's answer, non-2xx.                                          *)
(***************************************************************************)
\* Response.ok
Ok(wr) == wr.status >= 200 /\ wr.status <= 299

\* the failure answered with a fixed status instead of the webhook's
WebhookFailedAs500(wr) ==
    Json(Obj([error |-> Str("Webhook request failed: " \o wr.statusText)]), 500)

WebhookFailed(wr) ==
    Json(Obj([error |-> Str("Webhook request failed: " \o wr.statusText)]),
         wr.status)

(***************************************************************************)
(* The webhook's answer, binary audio.                                     *)
(***************************************************************************)
\* contentType && contentType.includes('audio/')
IsAudioResponse(contentType) ==
    Truthy(contentType) /\ Includes(contentType.str, "audio/")

\* the lookup with mp3 tested before mpeg
FileExtensionMp3First(ct) ==
    IF Includes(ct, "mp3") THEN "mp3"
    ELSE IF Includes(ct, "mpeg") THEN "mpga"
    ELSE IF Includes(ct, "wav") THEN "wav"
    ELSE IF Includes(ct, "ogg") THEN "ogg"
    ELSE "mpga"

FileExtension(ct) ==
    IF Includes(ct, "mpeg") THEN "mpga"
    ELSE IF Includes(ct, "mp3") THEN "mp3"
    ELSE IF Includes(ct, "wav") THEN "wav"
    ELSE IF Includes(ct, "ogg") THEN "ogg"
    ELSE "mpga"

FileName(ct) ==
    IF Includes(ct, "mpeg") THEN "data.mpga"
    ELSE IF Includes(ct, "mp3") THEN "data.mp3"
    ELSE IF Includes(ct, "wav") THEN "data.wav"
    ELSE IF Includes(ct, "ogg") THEN "data.ogg"
    ELSE "data.mpga"

Success(file, t, v) ==
    Json(Obj([success |-> Bool(TRUE), file |-> file, text |-> t, voiceId |-> v]),
         200)

AudioFile(contentType, audioBuffer) ==
    Obj([fileName |-> Str(FileName(contentType.str)),
         fileExtension |-> Str(FileExtension(contentType.str)),
         mimeType |-> contentType,
         fileSize |-> Num(Len(audioBuffer)),
         audioBase64 |-> Str(Base64Encode(audioBuffer))])

(***************************************************************************)
(* The webhook's answer, JSON.                                             *)
(***************************************************************************)
\* the size with the padding left in
Base64FileSizeUnpadded(base64Audio) == (Len(base64Audio) * 3) \div 4

\* Math.floor((base64Length * 3) / 4) - padding
Base64FileSize(base64Audio) ==
    (Len(base64Audio) * 3) \div 4 - MatchEqCount(base64Audio)

\* the file built from a base64 string (array, data and audio sub-cases)
Base64File(base64Audio) ==
    Obj([fileName |-> Str("data.mpga"),
         fileExtension |-> Str("mpga"),
         mimeType |-> Str("audio/mpeg"),
         fileSize |-> Num(Base64FileSize(base64Audio.str)),
         audioBase64 |-> base64Audio])

\* data[0].audio || data[0].data
ArrayBase64Audio(data) == Or(Get(data.items[1], "audio"), Get(data.items[1], "data"))

\* Array.isArray(data) && data.length > 0
IsNonEmptyArray(data) == IsArray(data) /\ Len(data.items) > 0

\* base64Audio && typeof base64Audio === 'string'
IsBase64Audio(x) == Truthy(x) /\ IsString(x)

\* data.audioBase64 || data.audioUrl || data.file
HasObjectAudio(data) ==
    \/ Truthy(Get(data, "audioBase64"))
    \/ Truthy(Get(data, "audioUrl"))
    \/ Truthy(Get(data, "file"))

\* data.file || { fileName: .., ...(data.audioBase64 && ..), ... }
ObjectFile(data) ==
    Or(Get(data, "file"),
       Obj([fileName |-> Or(Get(data, "fileName"), Str("data.mpga")),
            fileExtension |-> Or(Get(data, "fileExtension"), Str("mpga")),
            mimeType |-> Or(Get(data, "mimeType"), Str("audio/mpeg")),
            fileSize |-> Or(Get(data, "fileSize"), Num(0))]
           @@ SpreadIf("audioBase64", Get(data, "audioBase64"))
           @@ SpreadIf("audioUrl", Get(data, "audioUrl"))))

Unrecognized ==
    Json(Obj([error |-> Str("Unable to extract audio data from webhook response"),
              details |-> Str("Response format not recognized")]),
         500)

InvalidJson == Json(Obj([error |-> Str("Invalid JSON response from webhook")]), 500)

\* the return statement the JSON branch reaches for the parsed value data, or
\* "catch" when evaluating a property of null throws
JsonReturn(data) ==
    IF IsNonEmptyArray(data) /\ Throws(data.items[1]) THEN "catch"
    ELSE IF IsNonEmptyArray(data) /\ IsBase64Audio(ArrayBase64Audio(data))
        THEN "array"
    ELSE IF Throws(data) THEN "catch"
    ELSE IF HasObjectAudio(data) THEN "object"
    ELSE IF IsBase64Audio(Get(data, "data")) THEN "data"
    ELSE IF IsBase64Audio(Get(data, "audio")) THEN "audio"
    ELSE "unrecognized"

JsonResponse(data, t, v) ==
    CASE JsonReturn(data) = "catch" -> InternalServerError
      [] JsonReturn(data) = "array" ->
            Success(Base64File(ArrayBase64Audio(data)), t, v)
      [] JsonReturn(data) = "object" -> Success(ObjectFile(data), t, v)
      [] JsonReturn(data) = "data" -> Success(Base64File(Get(data, "data")), t, v)
      [] JsonReturn(data) = "audio" ->
            Success(Base64File(Get(data, "audio")), t, v)
      [] OTHER -> Unrecognized

(***************************************************************************)
(* The inputs: what a caller posts and what the webhook answers.           *)
(***************************************************************************)
\* an object with exactly the properties of f that are not undefined
ObjOf(f) == Obj([k \in {k \in DOMAIN f : f[k] # Undefined} |-> f[k]])

RequestTexts == {Undefined, Null, Num(5), Str(""), Str("Hello")}

RequestVoiceIds == {Undefined, Null, Num(5), Str(""), Str("v1")}

\* request.json() throws on a malformed body, else yields any JSON value
Requests ==
    {[parsed |-> FALSE, body |-> Undefined]}
    \cup {[parsed |-> TRUE, body |-> b] : b \in {Null, Num(7), Str("Hello"), Arr(<<>>)}}
    \cup {[parsed |-> TRUE, body |-> ObjOf([text |-> t, voiceId |-> v])] :
            t \in RequestTexts, v \in RequestVoiceIds}

Bytes == {77, 97, 110, 255}

RECURSIVE SeqsUpTo(_, _)
SeqsUpTo(S, n) ==
    IF n = 0 THEN {<<>>}
    ELSE SeqsUpTo(S, n - 1)
            \cup {Append(q, x) : q \in {q \in SeqsUpTo(S, n - 1) : Len(q) = n - 1},
                                 x \in S}

\* binary bodies: no sequence of these bytes is JSON text
ByteBuffers == SeqsUpTo(Bytes, MaxBytes)

ElementFields ==
    {Undefined, Null, Num(1), Str(""), Str("TWFu"), Str("TWE="), Str("T=E=")}

ArrayElements ==
    {Null, Num(1), Str("TWFu")}
    \cup {ObjOf([audio |-> a, data |-> d]) : a \in ElementFields, d \in ElementFields}

JsonArrays ==
    {Arr(q) : q \in {q \in SeqsUpTo({Null, Obj([data |-> Str("TQ==")])}, MaxArray) :
                        Len(q) # 1}}
    \cup {Arr(<<e>>) : e \in ArrayElements}

JsonFiles ==
    {Undefined, Str("clip.mp3"),
     Obj([fileName |-> Str("clip.mp3")]),
     Obj([fileName |-> Str("clip.mp3"), fileSize |-> Num(3),
          audioBase64 |-> Str("TWFu")]),
     Obj([fileName |-> Str("clip.mp3"), audioUrl |-> Str("https://cdn.test/a.mp3")]),
     Obj([audioBase64 |-> Str("TWFu"), audioUrl |-> Str("https://cdn.test/a.mp3")])}

\* objects without a file property, and objects that carry one
JsonObjects ==
    {ObjOf([audioBase64 |-> b, audioUrl |-> u, data |-> d, audio |-> a,
            fileSize |-> n]) :
        b \in {Undefined, Str(""), Str("TWFu")},
        u \in {Undefined, Str("https://cdn.test/a.mp3")},
        d \in {Undefined, Num(1), Str("TWE="), Str("T=E=")},
        a \in {Undefined, Str(""), Str("TQ==")},
        n \in {Undefined, Num(3)}}
    \cup {ObjOf([file |-> f, audioBase64 |-> b, data |-> d, mimeType |-> m]) :
        f \in JsonFiles \ {Undefined},
        b \in {Undefined, Str("TWFu")},
        d \in {Undefined, Str("TWE=")},
        m \in {Undefined, Str("audio/wav")}}
    \cup {Obj([foo |-> Str("bar")])}

JsonValues == {Null, Num(0), Num(7), Str("TWFu"), Bool(TRUE)} \cup JsonArrays \cup JsonObjects

\* a body is raw bytes that are no JSON text, or the JSON text of a value
Bodies ==
    {[kind |-> "bytes", bytes |-> b] : b \in ByteBuffers}
    \cup {[kind |-> "json", value |-> v] : v \in JsonValues}

\* headers.get('content-type'): null when the header is missing
ContentTypes ==
    {Null, Str(""), Str("application/json"), Str("text/plain; charset=utf-8"),
     Str("AUDIO/MPEG"), Str("application/json; profile=audio/mpeg"),
     Str("application/x-audio/ogg"),
     Str("audio/mpeg"), Str("audio/mp3"), Str("audio/wav"), Str("audio/ogg"),
     Str("audio/aac"), Str("audio/mpeg; codecs=mp3"), Str("audio/ogg; codecs=mp3"),
     Str("audio/wav; alt=ogg")}

Statuses ==
    {[status |-> 200, statusText |-> "OK"],
     [status |-> 201, statusText |-> "Created"],
     [status |-> 300, statusText |-> "Multiple Choices"],
     [status |-> 404, statusText |-> "Not Found"],
     [status |-> 503, statusText |-> "Service Unavailable"]}

\* a body read with arrayBuffer() is given by its bytes, so the content types
\* that lead there come with the bodies of kind "bytes"
BodiesFor(c) == {b \in Bodies : IsAudioResponse(c) => b.kind = "bytes"}

WebhookResponses ==
    UNION {{[status |-> s.status, statusText |-> s.statusText, contentType |-> c,
             body |-> b] : s \in Statuses, b \in BodiesFor(c)} : c \in ContentTypes}

NoWebhookResponse ==
    [status |-> 0, statusText |-> "", contentType |-> Null,
     body |-> [kind |-> "bytes", bytes |-> <<>>]]

(***************************************************************************)
(* POST: one invocation of the handler.                                    *)
(***************************************************************************)
\* no toast is shown
NoToast == [message |-> "", by |-> 0]

\* no generation request is in flight
NoRequest == [parsed |-> FALSE, body |-> Undefined]

\* the useState initial values of Dashboard, for the source variant v
InitDashboard(v) ==
    /\ variant = v
    /\ formText = ""
    /\ formVoiceId = ""
    /\ isGenerating = FALSE
    /\ isSending = FALSE
    /\ audioFile = Null
    /\ audioUrl = Null
    /\ error = NoToast
    /\ success = NoToast
    /\ timers = <<>>
    /\ liveUrls = {}
    /\ inflight = NoRequest
    /\ toasts = 0
    /\ urls = 0
    /\ generations = 0
    /\ cleared = FALSE
    /\ lastStep = "none"

InitPost ==
    /\ pc = "idle"
    /\ request = [parsed |-> FALSE, body |-> Undefined]
    /\ calls = <<>>
    /\ webhookResponse = NoWebhookResponse
    /\ response = NoResponse
    /\ returned = "none"

Init == InitPost /\ InitDashboard("dashboard")

Return(r, label) ==
    /\ response' = r
    /\ returned' = label
    /\ pc' = "done"

\* a caller posts a body and POST starts
Receive ==
    /\ pc = "idle"
    /\ \E r \in Requests : request' = r
    /\ pc' = "start"
    /\ UNCHANGED <<calls, webhookResponse, response, returned>>
    /\ UNCHANGED formVars

\* request.json(), the destructuring and the two checks; a valid request
\* issues the fetch
Validate ==
    /\ pc = "start"
    /\ IF DestructureThrows(request)
       THEN Return(InternalServerError, "catch") /\ UNCHANGED calls
       ELSE IF InvalidField(text)
       THEN Return(TextRequired, "text") /\ UNCHANGED calls
       ELSE IF InvalidField(voiceId)
       THEN Return(VoiceIdRequired, "voiceId") /\ UNCHANGED calls
       ELSE /\ calls' = Append(calls, FetchCall(text, voiceId))
            /\ pc' = "fetch"
            /\ UNCHANGED <<response, returned>>
    /\ UNCHANGED <<request, webhookResponse>>
    /\ UNCHANGED formVars

\* fetch rejects: the webhook cannot be reached
FetchRejects ==
    /\ pc = "fetch"
    /\ Return(InternalServerError, "catch")
    /\ UNCHANGED <<request, calls, webhookResponse>>
    /\ UNCHANGED formVars

\* fetch resolves with the webhook's answer
FetchResolves ==
    /\ pc = "fetch"
    /\ \E wr \in WebhookResponses : webhookResponse' = wr
    /\ pc' = "respond"
    /\ UNCHANGED <<request, calls, response, returned>>
    /\ UNCHANGED formVars

\* if (!webhookResponse.ok)
RespondNotOk ==
    /\ pc = "respond"
    /\ ~Ok(webhookResponse)
    /\ Return(WebhookFailed(webhookResponse), "notOk")
    /\ UNCHANGED <<request, calls, webhookResponse>>
    /\ UNCHANGED formVars

\* the response is an audio file
RespondAudio ==
    /\ pc = "respond"
    /\ Ok(webhookResponse)
    /\ IsAudioResponse(webhookResponse.contentType)
    /\ Return(Success(AudioFile(webhookResponse.contentType,
                                webhookResponse.body.bytes), text, voiceId),
              "binary")
    /\ UNCHANGED <<request, calls, webhookResponse>>
    /\ UNCHANGED formVars

\* the response is JSON
RespondJson ==
    /\ pc = "respond"
    /\ Ok(webhookResponse)
    /\ ~IsAudioResponse(webhookResponse.contentType)
    /\ IF webhookResponse.body.kind # "json"
       THEN Return(InvalidJson, "parseError")
       ELSE Return(JsonResponse(webhookResponse.body.value, text, voiceId),
                   JsonReturn(webhookResponse.body.value))
    /\ UNCHANGED <<request, calls, webhookResponse>>
    /\ UNCHANGED formVars

Next ==
    \/ Receive
    \/ Validate
    \/ FetchRejects
    \/ FetchResolves
    \/ RespondNotOk
    \/ RespondAudio
    \/ RespondJson

Spec == Init /\ [][Next]_vars

(***************************************************************************)
(* POST as one function of the request and of what the fetch yields: the   *)
(* response the browser receives from /api/webhook.                        *)
(***************************************************************************)
FetchRejected == [kind |-> "rejected"]

FetchResolved(wr) == [kind |-> "resolved", wr |-> wr]

PostResponse(r, fetched) ==
    IF DestructureThrows(r) THEN InternalServerError
    ELSE IF InvalidField(Get(r.body, "text")) THEN TextRequired
    ELSE IF InvalidField(Get(r.body, "voiceId")) THEN VoiceIdRequired
    ELSE IF fetched.kind = "rejected" THEN InternalServerError
    ELSE IF ~Ok(fetched.wr) THEN WebhookFailed(fetched.wr)
    ELSE IF IsAudioResponse(fetched.wr.contentType)
        THEN Success(AudioFile(fetched.wr.contentType, fetched.wr.body.bytes),
                     Get(r.body, "text"), Get(r.body, "voiceId"))
    ELSE IF fetched.wr.body.kind # "json" THEN InvalidJson
    ELSE JsonResponse(fetched.wr.body.value,
                      Get(r.body, "text"), Get(r.body, "voiceId"))

(***************************************************************************)
(* The Dashboard component.                                                *)
(***************************************************************************)
\* dashboard.tsx has the Generate button only; the other variant of the file
\* also has the Send Text and Clear buttons and requires a voice ID
Variants == {"dashboard", "part_000"}

HasClearButton == variant = "part_000"

DEFAULT_VOICE_ID == "uju3wxzG5OhpWcoi3SMy"

\* s.trim(), for strings whose only white space is the space character
RECURSIVE Trim(_)
Trim(s) ==
    IF Len(s) > 0 /\ CharAt(s, 1) = " " THEN Trim(SubSeq(s, 2, Len(s)))
    ELSE IF Len(s) > 0 /\ CharAt(s, Len(s)) = " "
        THEN Trim(SubSeq(s, 1, Len(s) - 1))
    ELSE s

\* what the user types into the two fields
FormTexts == {"", "  ", "Hello"}

FormVoiceIds == {"", "v1"}

\* what the webhook answers while the form is used: one answer for each way
\* POST returns
FormWebhookResponses ==
    {[status |-> 503, statusText |-> "Service Unavailable",
      contentType |-> Str("application/json"),
      body |-> [kind |-> "bytes", bytes |-> <<77>>]]}
    \cup {[status |-> 200, statusText |-> "OK", contentType |-> Str("audio/mpeg"),
           body |-> [kind |-> "bytes", bytes |-> b]] : b \in {<<>>, <<77, 97, 110>>}}
    \cup {[status |-> 200, statusText |-> "OK",
           contentType |-> Str("application/json"),
           body |-> [kind |-> "bytes", bytes |-> <<77>>]]}
    \cup {[status |-> 200, statusText |-> "OK",
           contentType |-> Str("application/json"),
           body |-> [kind |-> "json", value |-> v]] :
            v \in {Null,
                   Obj([foo |-> Str("bar")]),
                   Arr(<<Obj([audio |-> Str("TWE=")])>>),
                   Obj([data |-> Str("T=E=")]),
                   Obj([audioUrl |-> Str("https://cdn.test/a.mp3")]),
                   Obj([file |-> Obj([fileName |-> Str("clip.mp3")])])}}

\* what the browser's fetch("/api/webhook") yields: a rejection, or the
\* response POST gives for the request and for what its own fetch yields
ProxyResponses(r) ==
    {PostResponse(r, FetchRejected)}
    \cup {PostResponse(r, FetchResolved(wr)) : wr \in FormWebhookResponses}

\* atob(s) throws unless s, with up to two trailing '=' of a string of whole
\* groups removed, is made of base64 characters and is not one character
\* over whole groups
AtobThrows(s) ==
    LET stripped ==
            IF Len(s) % 4 = 0 /\ Len(s) > 0 /\ CharAt(s, Len(s)) = "="
            THEN IF CharAt(s, Len(s) - 1) = "="
                 THEN SubSeq(s, 1, Len(s) - 2)
                 ELSE SubSeq(s, 1, Len(s) - 1)
            ELSE s
    IN \/ Len(stripped) % 4 = 1
       \/ \E i \in 1..Len(stripped) : ~IsBase64Char(CharAt(stripped, i))

\* URL.createObjectURL(blob): a URL no other blob has
BlobUrl(n) == "blob:" \o ToString(n)

\* showToast(message, type): the message is set and a 4000 ms timer started
\* that clears whatever message of that type is then shown
ShowToast(message, type) ==
    /\ toasts < MaxToasts
    /\ toasts' = toasts + 1
    /\ timers' = Append(timers, [type |-> type, id |-> toasts + 1])
    /\ IF type = "error"
       THEN error' = [message |-> message, by |-> toasts + 1]
       ELSE success' = [message |-> message, by |-> toasts + 1]

\* onChange of the text area
TypeText ==
    /\ \E v \in FormTexts \ {formText} : formText' = v
    /\ lastStep' = "type"
    /\ UNCHANGED <<variant, formVoiceId, isGenerating, isSending, audioFile, audioUrl,
                   error, success, timers, liveUrls, inflight, toasts, urls,
                   generations, cleared>>
    /\ UNCHANGED postVars

\* onChange of the voice ID input
TypeVoiceId ==
    /\ \E v \in FormVoiceIds \ {formVoiceId} : formVoiceId' = v
    /\ lastStep' = "type"
    /\ UNCHANGED <<variant, formText, isGenerating, isSending, audioFile, audioUrl,
                   error, success, timers, liveUrls, inflight, toasts, urls,
                   generations, cleared>>
    /\ UNCHANGED postVars

\* the voiceId handleGenerateVoice sends
FinalVoiceId ==
    IF variant = "dashboard"
    THEN (IF Trim(formVoiceId) # "" THEN Trim(formVoiceId) ELSE DEFAULT_VOICE_ID)
    ELSE formVoiceId

\* the message of the toast that ends handleGenerateVoice before any request,
\* "" when the fields pass
GenerateRefusal ==
    IF Trim(formText) = "" THEN "Please enter text to generate voice"
    ELSE IF variant = "part_000" /\ Trim(formVoiceId) = ""
        THEN "Please enter a voice ID"
    ELSE ""

\* handleGenerateVoice up to its await fetch: the button is enabled while
\* no generation runs
GenerateClick ==
    /\ ~isGenerating
    /\ IF GenerateRefusal # ""
       THEN /\ ShowToast(GenerateRefusal, "error")
            /\ lastStep' = "refused"
            /\ UNCHANGED <<isGenerating, audioFile, audioUrl, success, inflight,
                           generations, cleared>>
       ELSE /\ generations < MaxGenerations
            /\ generations' = generations + 1
            /\ isGenerating' = TRUE
            /\ error' = NoToast
            /\ audioFile' = Null
            /\ audioUrl' = Null
            /\ inflight' = [parsed |-> TRUE,
                            body |-> Obj([text |-> Str(formText),
                                          voiceId |-> Str(FinalVoiceId)])]
            /\ cleared' = FALSE
            /\ lastStep' = "generate"
            /\ UNCHANGED <<success, timers, toasts>>
    /\ UNCHANGED <<variant, formText, formVoiceId, isSending, liveUrls, urls>>
    /\ UNCHANGED postVars

\* response.ok
ResponseOk(r) == r.status >= 200 /\ r.status <= 299

\* errorData.error || "Generation failed"
FailureMessage(r) == Or(Get(r.body, "error"), Str("Generation failed")).str

\* which source of the player's URL handleGenerateVoice takes for data.file
UrlSource(f) ==
    IF Truthy(Get(f, "audioUrl")) THEN "audioUrl"
    ELSE IF Truthy(Get(f, "audioBase64")) THEN "audioBase64"
    ELSE "none"

\* handleGenerateVoice from the time its fetch settles: fetch rejects
GenerateFails ==
    /\ isGenerating
    /\ ShowToast("Failed to fetch", "error")
    /\ isGenerating' = FALSE
    /\ inflight' = NoRequest
    /\ lastStep' = "failed"
    /\ UNCHANGED <<variant, formText, formVoiceId, isSending, audioFile, audioUrl,
                   success, liveUrls, urls, generations, cleared>>
    /\ UNCHANGED postVars

\* handleGenerateVoice from the time its fetch settles: a response arrives
GenerateSettles ==
    /\ isGenerating
    /\ \E r \in ProxyResponses(inflight) :
          LET f == Get(r.body, "file") IN
          IF ~ResponseOk(r)
          THEN /\ ShowToast(FailureMessage(r), "error")
               /\ UNCHANGED <<audioFile, audioUrl, success, liveUrls, urls>>
          ELSE IF ~(Truthy(Get(r.body, "success")) /\ Truthy(f))
          THEN /\ ShowToast("Invalid response from server", "error")
               /\ UNCHANGED <<audioFile, audioUrl, success, liveUrls, urls>>
          ELSE /\ audioFile' = f
               /\ CASE UrlSource(f) = "audioUrl" ->
                        /\ audioUrl' = Get(f, "audioUrl")
                        /\ ShowToast("Voice generated successfully!", "success")
                        /\ UNCHANGED <<error, liveUrls, urls>>
                    [] UrlSource(f) = "audioBase64"
                            /\ AtobThrows(Get(f, "audioBase64").str) ->
                        /\ ShowToast("InvalidCharacterError", "error")
                        /\ UNCHANGED <<audioUrl, success, liveUrls, urls>>
                    [] UrlSource(f) = "audioBase64"
                            /\ ~AtobThrows(Get(f, "audioBase64").str) ->
                        /\ urls' = urls + 1
                        /\ liveUrls' = liveUrls \cup {BlobUrl(urls + 1)}
                        /\ audioUrl' = Str(BlobUrl(urls + 1))
                        /\ ShowToast("Voice generated successfully!", "success")
                        /\ UNCHANGED error
                    [] OTHER ->
                        /\ ShowToast("Voice generated successfully!", "success")
                        /\ UNCHANGED <<audioUrl, error, liveUrls, urls>>
    /\ isGenerating' = FALSE
    /\ inflight' = NoRequest
    /\ lastStep' = "settled"
    /\ UNCHANGED <<variant, formText, formVoiceId, isSending, generations, cleared>>
    /\ UNCHANGED postVars

\* handleClear, behind the Clear button
Clear ==
    /\ HasClearButton
    /\ formText' = ""
    /\ formVoiceId' = ""
    /\ audioFile' = Null
    /\ IF Truthy(audioUrl)
       THEN liveUrls' = liveUrls \ {audioUrl.str} /\ audioUrl' = Null
       ELSE UNCHANGED <<liveUrls, audioUrl>>
    /\ error' = NoToast
    /\ success' = NoToast
    /\ cleared' = TRUE
    /\ lastStep' = "clear"
    /\ UNCHANGED <<variant, isGenerating, isSending, timers, inflight, toasts, urls,
                   generations>>
    /\ UNCHANGED postVars

\* handleDownload, behind the button the player section shows
Download ==
    /\ Truthy(audioFile) /\ Truthy(audioUrl)
    /\ ShowToast("Download started", "success")
    /\ lastStep' = "download"
    /\ UNCHANGED <<variant, formText, formVoiceId, isGenerating, isSending, audioFile,
                   audioUrl, error, liveUrls, inflight, urls, generations, cleared>>
    /\ UNCHANGED postVars

\* handleSendText up to its await fetch
SendTextClick ==
    /\ HasClearButton
    /\ ~isSending
    /\ IF Trim(formText) = ""
       THEN ShowToast("Please enter text to send", "error") /\ UNCHANGED isSending
       ELSE isSending' = TRUE /\ error' = NoToast /\ UNCHANGED <<timers, toasts>>
    /\ lastStep' = "send"
    /\ UNCHANGED <<variant, formText, formVoiceId, isGenerating, audioFile, audioUrl,
                   success, liveUrls, inflight, urls, generations, cleared>>
    /\ UNCHANGED postVars

\* handleSendText from the time its fetch settles
SendTextSettles ==
    /\ isSending
    /\ \/ ShowToast("Text sent successfully!", "success") /\ UNCHANGED error
       \/ ShowToast("Failed to send text", "error") /\ UNCHANGED success
    /\ isSending' = FALSE
    /\ lastStep' = "sent"
    /\ UNCHANGED <<variant, formText, formVoiceId, isGenerating, audioFile, audioUrl,
                   liveUrls, inflight, urls, generations, cleared>>
    /\ UNCHANGED postVars

\* the oldest pending timer of showToast runs: all wait 4000 ms, so they run
\* in the order they were started
TimerFires ==
    /\ timers # <<>>
    /\ timers' = Tail(timers)
    /\ IF Head(timers).type = "error"
       THEN error' = NoToast /\ UNCHANGED success
       ELSE success' = NoToast /\ UNCHANGED error
    /\ lastStep' = "timer"
    /\ UNCHANGED <<variant, formText, formVoiceId, isGenerating, isSending, audioFile,
                   audioUrl, liveUrls, inflight, toasts, urls, generations, cleared>>
    /\ UNCHANGED postVars

InitForm == InitPost /\ \E v \in Variants : InitDashboard(v)

NextForm ==
    \/ TypeText
    \/ TypeVoiceId
    \/ GenerateClick
    \/ GenerateFails
    \/ GenerateSettles
    \/ Clear
    \/ Download
    \/ SendTextClick
    \/ SendTextSettles
    \/ TimerFires

SpecForm == InitForm /\ [][NextForm]_vars

(***************************************************************************)
(* What the properties below read off a finished invocation.               *)
(***************************************************************************)
Done == pc = "done"

\* a 200 success response
Succeeded == Done /\ response.status = 200

\* the file of the response body
file == Get(response.body, "file")

\* the webhook answered 2xx and its body was parsed as JSON
JsonParsed == Done /\ Ok(webhookResponse) /\ webhookResponse.body.kind = "json"

\* the parsed JSON value
data == webhookResponse.body.value

\* a property that is there: neither undefined nor null
Present(x) == x.t \notin {"undefined", "null"}

\* a string that carries something
NonEmptyString(x) == IsString(x) /\ x.str # ""

\* the response is an error: a status and an error string, no success, no file
IsError(r, status) ==
    /\ r.status = status
    /\ IsString(Get(r.body, "error"))
    /\ Get(r.body, "success") = Undefined
    /\ Get(r.body, "file") = Undefined

\* the four recognized shapes of the JSON value, as the specification lists them
Shape1(v) ==
    /\ IsArray(v) /\ Len(v.items) > 0
    /\ NonEmptyString(Get(v.items[1], "audio")) \/ NonEmptyString(Get(v.items[1], "data"))

Shape2(v) ==
    /\ v.t = "object"
    /\ \/ Truthy(Get(v, "audioBase64"))
       \/ Truthy(Get(v, "audioUrl"))
       \/ Truthy(Get(v, "file"))

Shape3(v) == v.t = "object" /\ NonEmptyString(Get(v, "data"))

Shape4(v) == v.t = "object" /\ NonEmptyString(Get(v, "audio"))

FirstShape(v) ==
    IF Shape1(v) THEN "array"
    ELSE IF Shape2(v) THEN "object"
    ELSE IF Shape3(v) THEN "data"
    ELSE IF Shape4(v) THEN "audio"
    ELSE "unrecognized"

(***************************************************************************)
(* C1: every parsed JSON value is normalized by the first sub-case it      *)
(* matches, in the order array, object (audioBase64/audioUrl/file), data,  *)
(* audio, unrecognized.                                                    *)
(***************************************************************************)
C1_FirstMatchWins == JsonParsed => returned = FirstShape(data)

(***************************************************************************)
(* C2: a non-empty array whose first element has a string audio or data    *)
(* field is answered 200 with the fixed mpga file and that string, audio   *)
(* when it is a string and otherwise data.                                 *)
(***************************************************************************)
C2_ArrayAudio ==
    JsonParsed /\ Shape1(data) =>
        LET audio == Get(data.items[1], "audio")
            chosen == IF NonEmptyString(audio) THEN audio ELSE Get(data.items[1], "data")
        IN /\ response.status = 200
           /\ Get(file, "fileName") = Str("data.mpga")
           /\ Get(file, "fileExtension") = Str("mpga")
           /\ Get(file, "mimeType") = Str("audio/mpeg")
           /\ Get(file, "audioBase64") = chosen

(***************************************************************************)
(* C3: the file of every 200 response carries exactly one of audioBase64   *)
(* and audioUrl.                                                           *)
(***************************************************************************)
C3_ExactlyOnePayload ==
    Succeeded => Present(Get(file, "audioBase64")) # Present(Get(file, "audioUrl"))

(***************************************************************************)
(* C4: when the file of a 200 response carries audioBase64, fileSize is    *)
(* the number of bytes that string decodes to; for a binary body the       *)
(* string decodes to the body.                                             *)
(***************************************************************************)
C4_FileSizeIsDecodedLength ==
    Succeeded /\ NonEmptyString(Get(file, "audioBase64"))
              /\ WellFormedBase64(Get(file, "audioBase64").str) =>
        LET decoded == Base64Decode(Get(file, "audioBase64").str)
        IN /\ Get(file, "fileSize") = Num(Len(decoded))
           /\ returned = "binary" => decoded = webhookResponse.body.bytes

(***************************************************************************)
(* C5: in the array, data and audio sub-cases fileSize is                  *)
(* floor(L * 3 / 4) - P for the base64 string of length L.  As first       *)
(* stated, P counts only the trailing '=' characters; as amended, P counts *)
(* every '=' character of the string, which is the trailing count whenever *)
(* '=' occurs only as trailing padding.                                    *)
(***************************************************************************)
RECURSIVE TrailingEqCount(_)
TrailingEqCount(s) ==
    IF Len(s) > 0 /\ CharAt(s, Len(s)) = "="
    THEN 1 + TrailingEqCount(SubSeq(s, 1, Len(s) - 1))
    ELSE 0

RECURSIVE EqCount(_)
EqCount(s) ==
    IF Len(s) = 0 THEN 0
    ELSE (IF CharAt(s, 1) = "=" THEN 1 ELSE 0) + EqCount(SubSeq(s, 2, Len(s)))

Base64SubCase == Done /\ returned \in {"array", "data", "audio"}

StartsWith(s, prefix) ==
    Len(s) >= Len(prefix) /\ SubSeq(s, 1, Len(prefix)) = prefix

\* C6: for a 2xx answer, binary-audio branch <=> content-type starts with
\* 'audio/'
C6_StartsWithAudio ==
    Done /\ Ok(webhookResponse) =>
        (returned = "binary"
            <=> /\ IsString(webhookResponse.contentType)
                /\ StartsWith(webhookResponse.contentType.str, "audio/"))

(***************************************************************************)
(* C7: in the binary-audio branch fileExtension is that of the first of    *)
(* mpeg, mp3, wav, ogg the content type contains, mpga when it contains    *)
(* none, and fileName is 'data.' followed by fileExtension.                *)
(***************************************************************************)
ExtensionOrder ==
    << <<"mpeg", "mpga">>, <<"mp3", "mp3">>, <<"wav", "wav">>, <<"ogg", "ogg">> >>

LookupExtension(ct) ==
    LET hits == {i \in DOMAIN ExtensionOrder : Includes(ct, ExtensionOrder[i][1])}
    IN IF hits = {} THEN "mpga"
       ELSE ExtensionOrder[CHOOSE i \in hits : \A j \in hits : i <= j][2]

\* C7: fileExtension is that of the first substring found in the order mpeg,
\* mp3, wav, ogg, else mpga; fileName is 'data.' followed by it
C7_ExtensionLookup ==
    Done /\ returned = "binary" =>
        LET ext == LookupExtension(webhookResponse.contentType.str)
        IN /\ Get(file, "fileExtension") = Str(ext)
           /\ Get(file, "fileName") = Str("data." \o ext)

\* C7: a content type with both ogg and mp3 has been given the extension mp3
C7_Witness ==
    /\ Done /\ returned = "binary"
    /\ webhookResponse.contentType = Str("audio/ogg; codecs=mp3")
    /\ Get(file, "fileExtension") = Str("mp3")
    /\ Get(file, "fileName") = Str("data.mp3")

(***************************************************************************)
(* C8: a non-2xx answer of the webhook, whatever its content type and      *)
(* body, is answered with the webhook's status and an error body; no       *)
(* normalization runs.                                                     *)
(***************************************************************************)
WebhookAnswered == webhookResponse # NoWebhookResponse

InvalidRequest(r) ==
    \/ ~r.parsed
    \/ ~NonEmptyString(Get(r.body, "text"))
    \/ ~NonEmptyString(Get(r.body, "voiceId"))

\* C9: an invalid or malformed request is answered 400 with an error body
\* and reaches no outbound call
C9_InvalidRequestIs400 ==
    Done /\ InvalidRequest(request) => IsError(response, 400) /\ calls = <<>>

(***************************************************************************)
(* C10: a parsed JSON value of none of the four recognized shapes fails    *)
(* with HTTP 500 and the error 'Unable to extract audio data from webhook  *)
(* response'.                                                              *)
(***************************************************************************)
C10_UnrecognizedFormat ==
    JsonParsed /\ FirstShape(data) = "unrecognized" =>
        /\ response.status = 500
        /\ Get(response.body, "error")
              = Str("Unable to extract audio data from webhook response")

(***************************************************************************)
(* C11: every invocation ends with exactly one response, either 200 with   *)
(* {success: true, file, text, voiceId} echoing the request, or an error   *)
(* status with an error string and no file.                                *)
(***************************************************************************)
\* a response is there exactly when the invocation has ended
OneResponse == (pc = "done") <=> (response # NoResponse)

SuccessShape ==
    /\ response.status = 200
    /\ Get(response.body, "success") = Bool(TRUE)
    /\ Present(Get(response.body, "file"))
    /\ Get(response.body, "text") = Get(request.body, "text")
    /\ Get(response.body, "voiceId") = Get(request.body, "voiceId")
    /\ Get(response.body, "error") = Undefined

\* C11 as first stated: the error status lies in the 4xx/5xx range
C11_SuccessOr4xx5xx ==
    /\ OneResponse
    /\ Done => \/ SuccessShape
               \/ IsError(response, response.status) /\ response.status \in 400..599

\* C11 as amended: the error status is 400, 500 or the status of the webhook's
\* non-2xx answer, whatever that status is
C11_SuccessOrError ==
    /\ OneResponse
    /\ Done => \/ SuccessShape
               \/ /\ IsError(response, response.status)
                  /\ \/ response.status \in {400, 500}
                     \/ /\ WebhookAnswered
                        /\ response.status = webhookResponse.status
                        /\ response.status \notin 200..299

\* C11: a 300 answer of the webhook has been passed on as an error with status 300
C11_Witness ==
    /\ Done
    /\ webhookResponse.status = 300
    /\ IsError(response, 300)

(***************************************************************************)
(* C12: a request that passes validation causes exactly one outbound POST  *)
(* with body {text, voice: voiceId, model_id: 'eleven_v3'}, made before    *)
(* any response; no outcome causes a second call.                          *)
(***************************************************************************)
C12_OneOutboundCall ==
    /\ Len(calls) <= 1
    /\ response # NoResponse => pc = "done"
    /\ pc \in {"fetch", "respond", "done"} /\ ~InvalidRequest(request) =>
          /\ Len(calls) = 1
          /\ calls[1].method = "POST"
          /\ calls[1].body = Obj([text |-> Get(request.body, "text"),
                                  voice |-> Get(request.body, "voiceId"),
                                  model_id |-> Str("eleven_v3")])
    /\ pc \in {"fetch", "respond"} => response = NoResponse

\* C12: an invocation ended in the unrecognized-format error after one call
C12_Witness ==
    /\ Done
    /\ returned = "unrecognized"
    /\ Len(calls) = 1

(***************************************************************************)
(* C13: at most one object URL created by handleGenerateVoice is live at   *)
(* any time: the URL held in audioUrl is revoked before a new generation   *)
(* or a clear replaces or drops it, so every object URL that was created   *)
(* and not revoked is the one audioUrl holds.                              *)
(***************************************************************************)
\* C13: every live object URL is the one in audioUrl
C13_LiveUrlIsAudioUrl ==
    /\ Cardinality(liveUrls) <= 1
    /\ \A u \in liveUrls : audioUrl = Str(u)

(***************************************************************************)
(* C14: a toast is cleared by its own timer (or by setError(null) or       *)
(* handleClear), never by the pending timer of an earlier toast of the     *)
(* same type: when a timer runs while a toast of its type is shown, that   *)
(* toast is the one whose showToast call started the timer.                *)
(***************************************************************************)
TimerRuns == timers # <<>> /\ timers' = Tail(timers) /\ lastStep' = "timer"

Shown(type) == IF type = "error" THEN error ELSE success

\* C14: the timer that runs clears only the toast that started it
C14_TimerClearsOwnToast ==
    [][TimerRuns /\ Shown(Head(timers).type) # NoToast
        => Shown(Head(timers).type).by = Head(timers).id]_vars

(***************************************************************************)
(* C15: where the Clear button exists, after handleClear audioFile and     *)
(* audioUrl stay null until the user starts a new generation; the response *)
(* of a generation that was in flight does not fill them again.            *)
(***************************************************************************)
\* C15: cleared and no generation started since: no file and no URL
C15_ClearedStaysEmpty ==
    HasClearButton /\ cleared => audioFile = Null /\ audioUrl = Null

(***************************************************************************)
(* C16: when handleGenerateVoice shows 'Voice generated successfully!' for *)
(* a response of POST /api/webhook, audioFile and audioUrl are both        *)
(* non-null, so the player is rendered.                                    *)
(***************************************************************************)
GeneratedToastShown ==
    /\ lastStep = "settled"
    /\ success.message = "Voice generated successfully!"
    /\ success.by = toasts

\* C16: the success toast of a generation comes with a file and a URL
C16_SuccessHasPlayer ==
    GeneratedToastShown => Truthy(audioFile) /\ Truthy(audioUrl)

====
